---- MODULE Spec2Model ----
(***************************************************************************)
(* Model of static/script.js: the tab dispatcher (showCase), the loading   *)
(* indicator (showLoading), the eight request handlers (runCase1 ...       *)
(* runCase6), the six result renderers (displayCase1Result ...             *)
(* displayCase6Result) and the three chart builders that share the global  *)
(* currentChart.                                                           *)
(*                                                                         *)
(* JavaScript values are tagged records.  A number n of the model stands   *)
(* for the JavaScript number n/10.  A JavaScript string is a sequence of   *)
(* tokens (TLA+ strings), so that concatenation is \o and startsWith is a  *)
(* test of the first token.  The Chinese literals of the source are        *)
(* written as ASCII tokens.                                                *)
(***************************************************************************)
EXTENDS Integers, Sequences, FiniteSets, TLC

VARIABLES
    panelActive,   \* ids of the .case-content elements carrying class 'active'
    tabActive,     \* the .tab-btn elements carrying class 'active'
    loading,       \* style.display of the element #loading
    inflight,      \* the requests awaited in fetch(): handler name -> how many
    dom,           \* innerHTML of every result region
    display,       \* style.display of every caseN-result element
    currentChart,  \* the global currentChart: Null or the chart object it refers to
    liveCharts,    \* per canvas, the charts created on it and not yet destroyed
    alert,         \* the text of the last notification shown with alert()
    uncaught,      \* an exception has left a handler or showCase uncaught
    started,       \* the number of handler calls made so far
    lastRender,    \* the renderer called last and the payload it was given
    now            \* Date.now()

vars == <<panelActive, tabActive, loading, inflight, dom, display, currentChart,
          liveCharts, alert, uncaught, started, lastRender, now>>

(***************************************************************************)
(* Bounds of the model.                                                    *)
(***************************************************************************)
MaxRequests == 3
MaxLen == 2
MaxTime == 1

(***************************************************************************)
(* JavaScript values.                                                      *)
(***************************************************************************)
Undefined == [t |-> "undefined"]
Null == [t |-> "null"]
Num(n) == [t |-> "number", n |-> n]
Str(s) == [t |-> "string", s |-> s]
Arr(a) == [t |-> "array", a |-> a]
Obj(o) == [t |-> "object", o |-> o]
Bool(b) == [t |-> "boolean", b |-> b]

IsNullish(v) == v.t \in {"undefined", "null"}
IsArray(v) == v.t = "array"
IsNumber(v) == v.t = "number"

\* ToBoolean: what `if (v)`, `v ? a : b` and `v || d` test.
Truthy(v) ==
    CASE v.t = "undefined" -> FALSE
      [] v.t = "null" -> FALSE
      [] v.t = "number" -> v.n # 0
      [] v.t = "string" -> v.s # <<>>
      [] v.t = "boolean" -> v.b
      [] OTHER -> TRUE

\* v.f: undefined when v is not an object or has no such property.  (Reading a
\* property of null or undefined raises; the callers test IsNullish first.)
Get(v, f) ==
    IF v.t = "object" /\ f \in DOMAIN v.o THEN v.o[f] ELSE Undefined

AbsVal(n) == IF n < 0 THEN -n ELSE n
Sign(n) == IF n < 0 THEN "-" ELSE ""

RECURSIVE Zeros(_)
Zeros(k) == IF k <= 0 THEN "" ELSE "0" \o Zeros(k - 1)

\* Number.prototype.toFixed(d), d >= 1, of the number n/10.
toFixed(n, d) ==
    Sign(n) \o ToString(AbsVal(n) \div 10) \o "." \o ToString(AbsVal(n) % 10)
        \o Zeros(d - 1)

\* Number.prototype.toExponential(d), d >= 2, of the number n/10, |n/10| < 100.
toExponential(n, d) ==
    LET a == AbsVal(n)
    IN  IF a = 0 THEN "0." \o Zeros(d) \o "e+0"
        ELSE IF a < 10 THEN Sign(n) \o ToString(a) \o "." \o Zeros(d) \o "e-1"
        ELSE IF a < 100
             THEN Sign(n) \o ToString(a \div 10) \o "." \o ToString(a % 10)
                      \o Zeros(d - 1) \o "e+0"
        ELSE Sign(n) \o ToString(a \div 100) \o "." \o ToString((a \div 10) % 10)
                 \o ToString(a % 10) \o Zeros(d - 2) \o "e+1"

\* String(n/10), as a template literal prints a number.
NumberToString(n) ==
    IF AbsVal(n) % 10 = 0
    THEN Sign(n) \o ToString(AbsVal(n) \div 10)
    ELSE Sign(n) \o ToString(AbsVal(n) \div 10) \o "." \o ToString(AbsVal(n) % 10)

\* String(v), as `${v}` and '...' + v convert a value (arrays of scalars).
ScalarToStr(v) ==
    CASE v.t = "undefined" -> <<"undefined">>
      [] v.t = "null" -> <<"null">>
      [] v.t = "number" -> <<NumberToString(v.n)>>
      [] v.t = "string" -> v.s
      [] v.t = "boolean" -> IF v.b THEN <<"true">> ELSE <<"false">>
      [] OTHER -> <<"[object Object]">>

RECURSIVE JoinFrom(_, _)
JoinFrom(a, i) ==
    IF i > Len(a) THEN <<>>
    ELSE (IF i > 1 THEN <<",">> ELSE <<>>)
         \o (IF IsNullish(a[i]) THEN <<>> ELSE ScalarToStr(a[i]))
         \o JoinFrom(a, i + 1)

ToStr(v) == IF v.t = "array" THEN JoinFrom(v.a, 1) ELSE ScalarToStr(v)

(***************************************************************************)
(* The page: the elements the script reads and writes.                     *)
(***************************************************************************)
Cases == {"case1", "case2", "case3", "case4", "case5", "case6"}
Tabs == {"tab1", "tab2", "tab3", "tab4", "tab5", "tab6"}
NoSuchCase == "case0"    \* an id that no element of the page carries

Regions ==
    {"case1-steps", "case1-solution", "case2-summary", "case3-metrics",
     "case3-coefficients", "case4-image", "case4-reactions",
     "case4-verification", "case5-image", "case5-stats", "case6-image",
     "case6-stats"}
ResultDivs ==
    {"case1-result", "case2-result", "case3-result", "case4-result",
     "case5-result", "case6-result"}
Canvases == {"case2-chart", "case3-chart"}

Empty == [k |-> "empty"]

(***************************************************************************)
(* The part of the state a renderer works on, as one record: ui.raised     *)
(* says that an exception has been raised and left the renderer.           *)
(***************************************************************************)
SetDisplay(ui, id, v) == [ui EXCEPT !.display[id] = v]
\* SetHTML with `innerHTML +=` written for `innerHTML =`
SetHTMLAppending(ui, id, html) ==
    [ui EXCEPT !.dom[id] = [k |-> "appended", to |-> @, html |-> html]]
SetHTML(ui, id, html) == [ui EXCEPT !.dom[id] = html]
Raise(ui) == [ui EXCEPT !.raised = TRUE]

AllOf(a, P(_)) == \A i \in 1..Len(a) : P(a[i])
MapOf(a, F(_)) == [i \in 1..Len(a) |-> F(a[i])]

(***************************************************************************)
(* The chart library, as the script uses it: new Chart(ctx, config) and    *)
(* chart.destroy().                                                        *)
(***************************************************************************)
\* currentChart.destroy()
destroy(ui) ==
    IF ui.chart.destroyed THEN ui
    ELSE [ui EXCEPT !.chart.destroyed = TRUE,
                    !.live[ui.chart.canvas] = @ - 1]

\* currentChart = new Chart(ctx, {type, data: {labels, datasets}})
newChart(ui, canvas, type, labels, datasets) ==
    [ui EXCEPT !.chart = [t |-> "chart", canvas |-> canvas, type |-> type,
                          labels |-> labels, datasets |-> datasets,
                          destroyed |-> FALSE],
               !.live[canvas] = @ + 1]

\* destroyCurrent without the call of destroy()
destroyCurrentSkipped(ui) == ui

\* if (currentChart) { currentChart.destroy(); }
destroyCurrent(ui) == IF ui.chart.t = "chart" THEN destroy(ui) ELSE ui

colors == <<"#3b82f6", "#10b981", "#f59e0b", "#ef4444">>
\* colors[index], index counted from 0
colorAt(index) == IF index < Len(colors) THEN Str(<<colors[index + 1]>>) ELSE Undefined

curveOK(result) ==
    /\ ~IsNullish(result)
    /\ IsArray(Get(result, "iterations"))
    /\ AllOf(Get(result, "iterations").a, LAMBDA iter : ~IsNullish(iter))

curvePoint(iter) == [x |-> Get(iter, "iteration"), y |-> Get(iter, "exact_error")]

\* curveDataset reading the first run for every series
curveDatasetOfFirstRun(results, i) ==
    [label |-> <<"w = ">> \o ToStr(Get(results[1], "omega")),
     data |-> MapOf(Get(results[1], "iterations").a, curvePoint),
     borderColor |-> colorAt(i - 1),
     backgroundColor |-> ToStr(colorAt(i - 1)) \o <<"33">>]

curveDataset(results, i) ==
    [label |-> <<"w = ">> \o ToStr(Get(results[i], "omega")),
     data |-> MapOf(Get(results[i], "iterations").a, curvePoint),
     borderColor |-> colorAt(i - 1),
     backgroundColor |-> ToStr(colorAt(i - 1)) \o <<"33">>]

plotConvergenceCurves(results, ui) ==
    LET u1 == destroyCurrent(ui)
    IN  IF ~IsArray(results) \/ ~AllOf(results.a, curveOK) THEN Raise(u1)
        ELSE newChart(u1, "case2-chart", "line", <<>>,
                      [i \in 1..Len(results.a) |-> curveDataset(results.a, i)])

searchPoint(r) == [x |-> Get(r, "omega"), y |-> Get(r, "iterations")]

plotOptimalOmegaSearch(searchResults, ui) ==
    LET u1 == destroyCurrent(ui)
    IN  IF ~IsArray(searchResults)
           \/ ~AllOf(searchResults.a, LAMBDA r : ~IsNullish(r))
        THEN Raise(u1)
        ELSE newChart(u1, "case2-chart", "line", <<>>,
                      <<[label |-> <<"iterations to converge">>,
                         data |-> MapOf(searchResults.a, searchPoint),
                         borderColor |-> Str(<<"#667eea">>),
                         backgroundColor |-> <<"#667eea33">>]>>)

\* Math.abs(v)
mathAbs(v) ==
    CASE v.t = "number" -> [nan |-> FALSE, n |-> AbsVal(v.n)]
      [] v.t = "null" -> [nan |-> FALSE, n |-> 0]
      [] OTHER -> [nan |-> TRUE, n |-> 0]

plotFeatureImportance(coefficients, ui) ==
    LET u1 == destroyCurrent(ui)
    IN  IF ~IsArray(coefficients)
           \/ ~AllOf(coefficients.a, LAMBDA c : ~IsNullish(c))
        THEN Raise(u1)
        ELSE newChart(u1, "case3-chart", "bar",
                      MapOf(coefficients.a, LAMBDA c : ToStr(Get(c, "feature"))),
                      <<[label |-> <<"absolute coefficient">>,
                         data |-> MapOf(coefficients.a,
                                        LAMBDA c : mathAbs(Get(c, "coefficient"))),
                         borderColor |-> Str(<<"rgb(102, 126, 234)">>),
                         backgroundColor |-> <<"rgba(102, 126, 234, 0.7)">>]>>)

(***************************************************************************)
(* The result renderers.  Each takes the payload and the ui record and     *)
(* gives the ui record it leaves: what it wrote before an exception stays. *)
(***************************************************************************)
rowsOK(m, numbersOnly) ==
    /\ IsArray(m)
    /\ AllOf(m.a, LAMBDA row :
           /\ IsArray(row)
           /\ (numbersOnly => AllOf(row.a, IsNumber)))

\* typeof val === 'number' ? val.toFixed(4) : val
cellText(val) == IF IsNumber(val) THEN <<toFixed(val.n, 4)>> ELSE ToStr(val)

tableOf(m) == MapOf(m.a, LAMBDA row : MapOf(row.a, cellText))

stepOK(step) ==
    /\ ~IsNullish(step)
    /\ (Truthy(Get(step, "matrix")) => rowsOK(Get(step, "matrix"), FALSE))
    /\ (Truthy(Get(step, "L")) =>
            /\ rowsOK(Get(step, "L"), TRUE)
            /\ rowsOK(Get(step, "U"), TRUE))

stepHTML(step) ==
    [number |-> ToStr(Get(step, "step")),
     description |-> ToStr(Get(step, "description")),
     matrix |-> IF Truthy(Get(step, "matrix"))
                THEN <<tableOf(Get(step, "matrix"))>> ELSE <<>>,
     LU |-> IF Truthy(Get(step, "L"))
            THEN <<tableOf(Get(step, "L")), tableOf(Get(step, "U"))>> ELSE <<>>]

solutionHTML(data) ==
    [k |-> "solution",
     items |-> MapOf(data.solution.a, LAMBDA x : <<toFixed(x.n, 8)>>),
     method |-> ToStr(data.method),
     num_steps |-> ToStr(data.num_steps)]

\* displayCase1Result emptying the solution region of a payload without solution
displayCase1ResultClearingSolution(data, ui) ==
    LET u1 == SetDisplay(ui, "case1-result", "block")
        u2 == SetHTML(u1, "case1-steps",
                      [k |-> "steps", items |-> MapOf(data.steps.a, stepHTML)])
    IN  IF ~IsArray(data.steps) \/ ~AllOf(data.steps.a, stepOK) THEN Raise(u1)
        ELSE IF ~Truthy(data.solution) THEN SetHTML(u2, "case1-solution", Empty)
        ELSE IF ~IsArray(data.solution) \/ ~AllOf(data.solution.a, IsNumber)
             THEN Raise(u2)
        ELSE SetHTML(u2, "case1-solution", solutionHTML(data))

displayCase1Result(data, ui) ==
    LET u1 == SetDisplay(ui, "case1-result", "block")
        u2 == SetHTML(u1, "case1-steps",
                      [k |-> "steps", items |-> MapOf(data.steps.a, stepHTML)])
    IN  IF ~IsArray(data.steps) \/ ~AllOf(data.steps.a, stepOK) THEN Raise(u1)
        ELSE IF ~Truthy(data.solution) THEN u2
        ELSE IF ~IsArray(data.solution) \/ ~AllOf(data.solution.a, IsNumber)
             THEN Raise(u2)
        ELSE SetHTML(u2, "case1-solution", solutionHTML(data))

cardOK(result) ==
    /\ ~IsNullish(result)
    /\ IsArray(Get(result, "final_solution"))
    /\ AllOf(Get(result, "final_solution").a, IsNumber)

cardHTML(result) ==
    [omega |-> ToStr(Get(result, "omega")),
     convergence_iter |-> ToStr(Get(result, "convergence_iter")),
     final_solution |-> MapOf(Get(result, "final_solution").a,
                              LAMBDA x : toFixed(x.n, 4))]

\* displayCase2Result releasing the chart before it reports the format error
displayCase2ResultReleasingChart(results, ui) ==
    LET u1 == SetDisplay(ui, "case2-result", "block")
    IN  IF ~IsArray(results)
        THEN SetHTML(destroyCurrent(u1), "case2-summary", [k |-> "format-error"])
        ELSE IF ~AllOf(results.a, cardOK) THEN Raise(u1)
        ELSE plotConvergenceCurves(results,
                 SetHTML(u1, "case2-summary",
                         [k |-> "summary", cards |-> MapOf(results.a, cardHTML)]))

displayCase2Result(results, ui) ==
    LET u1 == SetDisplay(ui, "case2-result", "block")
    IN  IF ~IsArray(results)
        THEN SetHTML(u1, "case2-summary", [k |-> "format-error"])
        ELSE IF ~AllOf(results.a, cardOK) THEN Raise(u1)
        ELSE plotConvergenceCurves(results,
                 SetHTML(u1, "case2-summary",
                         [k |-> "summary", cards |-> MapOf(results.a, cardHTML)]))

\* Math.max(...coefficients.map(c => Math.abs(c.coefficient))), of numbers
RECURSIVE maxAbsFrom(_, _)
maxAbsFrom(a, i) ==
    IF i > Len(a) THEN 0
    ELSE LET m == maxAbsFrom(a, i + 1)
             v == AbsVal(Get(a[i], "coefficient").n)
         IN  IF v > m THEN v ELSE m

\* `${(Math.abs(c) / max) * 100}`: 0/0 is NaN; a quotient that is no integer is
\* written as the exact fraction.
barWidth(c, max) ==
    IF max = 0 THEN "NaN"
    ELSE IF (100 * AbsVal(c)) % max = 0 THEN ToString((100 * AbsVal(c)) \div max)
    ELSE ToString(100 * AbsVal(c)) \o "/" \o ToString(max)

coeffOK(coeff) == ~IsNullish(coeff) /\ IsNumber(Get(coeff, "coefficient"))

coeffHTML(coeff, all) ==
    [feature |-> ToStr(Get(coeff, "feature")),
     bar |-> barWidth(Get(coeff, "coefficient").n, maxAbsFrom(all, 1)) \o "%",
     value |-> toFixed(Get(coeff, "coefficient").n, 6)]

metricsHTML(data) ==
    [k |-> "metrics",
     r_squared |-> toFixed(data.r_squared.n, 4),
     rmse |-> toFixed(data.rmse.n, 4),
     num_samples |-> ToStr(data.num_samples),
     num_features |-> ToStr(data.num_features)]

displayCase3Result(data, ui) ==
    LET u1 == SetDisplay(ui, "case3-result", "block")
        u2 == SetHTML(u1, "case3-metrics", metricsHTML(data))
        cs == data.coefficients_sorted
        u3 == SetHTML(u2, "case3-coefficients",
                      [k |-> "coefficients",
                       items |-> MapOf(cs.a, LAMBDA c : coeffHTML(c, cs.a))])
    IN  IF ~IsNumber(data.r_squared) \/ ~IsNumber(data.rmse) THEN Raise(u1)
        ELSE IF ~IsArray(cs) \/ ~AllOf(cs.a, coeffOK) THEN Raise(u2)
        ELSE plotFeatureImportance(cs, u3)

\* data.figure_path.startsWith('/')
startsWithSlash(path) == Len(path) > 0 /\ path[1] = "/"

imageHTML(figure_path, t) ==
    [k |-> "image",
     src |-> (IF startsWithSlash(figure_path.s) THEN figure_path.s
              ELSE <<"/">> \o figure_path.s) \o <<"?t=", ToString(t)>>,
     caption |-> ToStr(figure_path)]

\* positions[i] ? positions[i].toFixed(2) : '0.00', i counted from 1
positionAt(positions, i) == IF i <= Len(positions) THEN positions[i] ELSE Undefined

reactionRowOK(reactions, positions, i) ==
    /\ Truthy(positionAt(positions, i)) => IsNumber(positionAt(positions, i))
    /\ IsNumber(reactions[i])

reactionRow(reactions, positions, i) ==
    <<"support " \o ToString(i),
      IF Truthy(positionAt(positions, i))
      THEN toFixed(positionAt(positions, i).n, 2) ELSE "0.00",
      toFixed(reactions[i].n, 4)>>

noDataRow == <<"no data">>

\* reactionsHTML without the row written for an empty list
reactionsHTMLWithoutPlaceholder(reactions, positions) ==
    [k |-> "table",
     rows |-> [i \in 1..Len(reactions) |-> reactionRow(reactions, positions, i)]]

reactionsHTML(reactions, positions) ==
    [k |-> "table",
     rows |-> IF Len(reactions) = 0 THEN <<noDataRow>>
              ELSE [i \in 1..Len(reactions) |-> reactionRow(reactions, positions, i)]]

\* v !== undefined ? v.toExponential(4) : 'N/A'   (toFixed for the two sums)
optionalOK(v) == v = Undefined \/ IsNumber(v)

verificationHTML(verification) ==
    LET total_reaction == Get(verification, "total_reaction")
        total_external == Get(verification, "total_external")
        force == Get(verification, "force_balance_error")
        moment == Get(verification, "moment_balance_error")
        isBalanced == Truthy(Get(verification, "is_balanced"))
    IN  [k |-> "verification",
         class |-> IF isBalanced THEN "solution-box" ELSE "problem-box",
         force |-> IF force # Undefined THEN toExponential(force.n, 4) ELSE "N/A",
         moment |-> IF moment # Undefined THEN toExponential(moment.n, 4) ELSE "N/A",
         total_reaction |-> IF total_reaction # Undefined
                            THEN <<toFixed(total_reaction.n, 4), " kN">> ELSE <<>>,
         total_external |-> IF total_external # Undefined
                            THEN <<toFixed(total_external.n, 4), " kN">> ELSE <<>>,
         message |-> IF isBalanced THEN "balanced" ELSE "check the data"]

displayCase4Result(data, ui, t) ==
    LET u1 == SetDisplay(ui, "case4-result", "block")
        u2 == IF Truthy(data.figure_path)
              THEN SetHTML(u1, "case4-image", imageHTML(data.figure_path, t))
              ELSE SetHTML(u1, "case4-image", [k |-> "image-failed"])
        reactions == IF IsArray(data.support_reactions)
                     THEN data.support_reactions.a ELSE <<>>
        positions == IF IsArray(data.support_positions)
                     THEN data.support_positions.a ELSE <<>>
        u3 == SetHTML(u2, "case4-reactions", reactionsHTML(reactions, positions))
        verification == IF Truthy(data.verification) THEN data.verification
                        ELSE Obj([f \in {} |-> Undefined])
    IN  IF Truthy(data.figure_path) /\ data.figure_path.t # "string" THEN Raise(u1)
        ELSE IF ~(\A i \in 1..Len(reactions) : reactionRowOK(reactions, positions, i))
             THEN Raise(u2)
        ELSE IF ~(/\ optionalOK(Get(verification, "force_balance_error"))
                  /\ optionalOK(Get(verification, "moment_balance_error"))
                  /\ optionalOK(Get(verification, "total_reaction"))
                  /\ optionalOK(Get(verification, "total_external")))
             THEN Raise(u3)
        ELSE SetHTML(u3, "case4-verification", verificationHTML(verification))

displayCase5Result(data, ui) ==
    LET u1 == SetDisplay(ui, "case5-result", "block")
        u2 == SetHTML(u1, "case5-image",
                      [k |-> "image", src |-> <<"/">> \o ToStr(data.figure_path)])
    IN  SetHTML(u2, "case5-stats",
                [k |-> "stats",
                 num_rays |-> ToStr(data.num_rays),
                 total_intersections |-> ToStr(data.total_intersections)])

displayCase6Result(data, ui) ==
    LET u1 == SetDisplay(ui, "case6-result", "block")
        u2 == SetHTML(u1, "case6-image",
                      [k |-> "image", src |-> <<"/">> \o ToStr(data.figure_path)])
    IN  IF ~IsNumber(data.final_residual) \/ ~IsNumber(data.relative_error)
        THEN Raise(u2)
        ELSE SetHTML(u2, "case6-stats",
                     [k |-> "stats",
                      matrix_size |-> ToStr(data.matrix_size) \o <<"x">>
                                          \o ToStr(data.matrix_size),
                      iterations |-> ToStr(data.iterations),
                      final_residual |-> toExponential(data.final_residual.n, 2),
                      relative_error |-> toExponential(data.relative_error.n, 2)])

(***************************************************************************)
(* The request handlers.  A handler runs up to its fetch() in one step     *)
(* (Start) and from the arrival of the response to its end in another      *)
(* (Resume).  A response is a network failure, [net |-> "fail"], or the    *)
(* parsed JSON object, [net |-> "ok", data |-> ...].  The operators below  *)
(* are the try/catch blocks: they give the ui record and the last          *)
(* notification the handler leaves.                                        *)
(***************************************************************************)
Handlers ==
    {"runCase1", "runCase2", "findOptimalOmega", "runCase3", "runCase4Simple",
     "runCase4", "runCase5", "runCase6"}

\* showLoading ignoring its argument
showLoadingAlwaysShown(show) == "flex"

\* showLoading(show)
showLoading(show) == IF show THEN "flex" ELSE "none"

\* alert('...: ' + error.message) of the catch blocks
catchAlert(message) == <<"request failed: ">> \o message
\* alert('...: ' + data.error)
errorAlert(data) == <<"error: ">> \o ToStr(data.error)

NetworkError == <<"Failed to fetch">>
TypeError == <<"TypeError">>

\* settle without the notification of the catch block
settleSilently(r, al) == [ui |-> [r EXCEPT !.raised = FALSE], alert |-> al]

\* the end of a try block whose last statement left the ui record r
settle(r, al) ==
    IF r.raised THEN [ui |-> [r EXCEPT !.raised = FALSE], alert |-> catchAlert(TypeError)]
    ELSE [ui |-> r, alert |-> al]

runCase1(resp, ui, al) ==
    IF resp.net = "fail" THEN [ui |-> ui, alert |-> catchAlert(NetworkError)]
    ELSE IF Truthy(resp.data.error) THEN [ui |-> ui, alert |-> errorAlert(resp.data)]
    ELSE settle(displayCase1Result(resp.data, ui), al)

runCase2(resp, ui, al) ==
    IF resp.net = "fail" THEN [ui |-> ui, alert |-> catchAlert(NetworkError)]
    ELSE IF Truthy(resp.data.error) THEN [ui |-> ui, alert |-> errorAlert(resp.data)]
    ELSE settle(displayCase2Result(resp.data.results, ui), al)

optimalAlert(data) ==
    <<"optimal omega = ", toFixed(data.optimal_omega.n, 4), " iterations: ">>
        \o ToStr(data.iterations)

findOptimalOmega(resp, ui, al) ==
    IF resp.net = "fail" THEN [ui |-> ui, alert |-> catchAlert(NetworkError)]
    ELSE IF Truthy(resp.data.error) THEN [ui |-> ui, alert |-> errorAlert(resp.data)]
    ELSE IF ~IsNumber(resp.data.optimal_omega) THEN settle(Raise(ui), al)
    ELSE settle(plotOptimalOmegaSearch(resp.data.search_results, ui),
                optimalAlert(resp.data))

runCase3(resp, ui, al) ==
    IF resp.net = "fail" THEN [ui |-> ui, alert |-> catchAlert(NetworkError)]
    ELSE IF Truthy(resp.data.error) THEN [ui |-> ui, alert |-> errorAlert(resp.data)]
    ELSE settle(displayCase3Result(resp.data, ui), al)

runCase4Simple(resp, ui, al, t) ==
    IF resp.net = "fail" THEN [ui |-> ui, alert |-> catchAlert(NetworkError)]
    ELSE settle(displayCase4Result(resp.data, ui, t), al)

runCase4(resp, ui, al, t) ==
    IF resp.net = "fail" THEN [ui |-> ui, alert |-> catchAlert(NetworkError)]
    ELSE settle(displayCase4Result(resp.data, ui, t), al)

runCase5(resp, ui, al) ==
    IF resp.net = "fail" THEN [ui |-> ui, alert |-> catchAlert(NetworkError)]
    ELSE settle(displayCase5Result(resp.data, ui), al)

runCase6(resp, ui, al) ==
    IF resp.net = "fail" THEN [ui |-> ui, alert |-> catchAlert(NetworkError)]
    ELSE settle(displayCase6Result(resp.data, ui), al)

\* the handlers that read an input element before their try block
GathersInput(h) == h \in {"runCase5", "runCase6"}

\* whether the handler hands the payload to a renderer or chart builder
Renders(h, resp) ==
    /\ resp.net = "ok"
    /\ h \in {"runCase1", "runCase2", "findOptimalOmega", "runCase3"}
           => ~Truthy(resp.data.error)
    /\ h = "findOptimalOmega" => IsNumber(resp.data.optimal_omega)

Continue(h, resp, ui, al, t) ==
    CASE h = "runCase1" -> runCase1(resp, ui, al)
      [] h = "runCase2" -> runCase2(resp, ui, al)
      [] h = "findOptimalOmega" -> findOptimalOmega(resp, ui, al)
      [] h = "runCase3" -> runCase3(resp, ui, al)
      [] h = "runCase4Simple" -> runCase4Simple(resp, ui, al, t)
      [] h = "runCase4" -> runCase4(resp, ui, al, t)
      [] h = "runCase5" -> runCase5(resp, ui, al)
      [] h = "runCase6" -> runCase6(resp, ui, al)

\* the renderer or chart builder the handler hands its payload to
RendererOf(h) ==
    CASE h = "runCase1" -> "displayCase1Result"
      [] h = "runCase2" -> "displayCase2Result"
      [] h = "findOptimalOmega" -> "plotOptimalOmegaSearch"
      [] h = "runCase3" -> "displayCase3Result"
      [] h \in {"runCase4Simple", "runCase4"} -> "displayCase4Result"
      [] h = "runCase5" -> "displayCase5Result"
      [] h = "runCase6" -> "displayCase6Result"

\* the call each handler makes with an error-free payload: the ui record the
\* renderer or chart builder leaves, raised or not
RenderOutcome(h, data, ui, t) ==
    CASE h = "runCase1" -> displayCase1Result(data, ui)
      [] h = "runCase2" -> displayCase2Result(data.results, ui)
      [] h = "findOptimalOmega" -> plotOptimalOmegaSearch(data.search_results, ui)
      [] h = "runCase3" -> displayCase3Result(data, ui)
      [] h \in {"runCase4Simple", "runCase4"} -> displayCase4Result(data, ui, t)
      [] h = "runCase5" -> displayCase5Result(data, ui)
      [] h = "runCase6" -> displayCase6Result(data, ui)

\* the result panel the renderer of each handler makes visible
ResultDivOf(h) ==
    CASE h = "runCase1" -> "case1-result"
      [] h \in {"runCase2", "findOptimalOmega"} -> "case2-result"
      [] h = "runCase3" -> "case3-result"
      [] h \in {"runCase4Simple", "runCase4"} -> "case4-result"
      [] h = "runCase5" -> "case5-result"
      [] h = "runCase6" -> "case6-result"

(***************************************************************************)
(* The state machine.                                                      *)
(***************************************************************************)
UI == [dom |-> dom, display |-> display, chart |-> currentChart,
       live |-> liveCharts, raised |-> FALSE]

NumInflight ==
    inflight["runCase1"] + inflight["runCase2"] + inflight["findOptimalOmega"]
        + inflight["runCase3"] + inflight["runCase4Simple"] + inflight["runCase4"]
        + inflight["runCase5"] + inflight["runCase6"]
NumLive == liveCharts["case2-chart"] + liveCharts["case3-chart"]

Init ==
    /\ panelActive = {"case1"}
    /\ tabActive = {"tab1"}
    /\ loading = "none"
    /\ inflight = [h \in Handlers |-> 0]
    /\ dom = [r \in Regions |-> Empty]
    /\ display = [r \in ResultDivs |-> "none"]
    /\ currentChart = Null
    /\ liveCharts = [c \in Canvases |-> 0]
    /\ alert = <<>>
    /\ uncaught = FALSE
    /\ started = 0
    /\ lastRender = [fn |-> "none", twice |-> FALSE]
    /\ now = 0

\* showCase without the loop that deactivates the panels
showCaseKeepingPanels(caseId, target) ==
    /\ panelActive' = IF caseId \in Cases THEN panelActive \cup {caseId} ELSE panelActive
    /\ tabActive' = IF caseId \in Cases THEN {target} ELSE {}
    /\ uncaught' = IF caseId \in Cases THEN uncaught ELSE TRUE
    /\ UNCHANGED <<loading, inflight, dom, display, currentChart, liveCharts,
                   alert, started, lastRender, now>>

\* showCase hiding the loading indicator as well
showCaseHidingLoading(caseId, target) ==
    /\ panelActive' = IF caseId \in Cases THEN {caseId} ELSE {}
    /\ tabActive' = IF caseId \in Cases THEN {target} ELSE {}
    /\ uncaught' = IF caseId \in Cases THEN uncaught ELSE TRUE
    /\ loading' = "none"
    /\ UNCHANGED <<inflight, dom, display, currentChart, liveCharts,
                   alert, started, lastRender, now>>

\* showCase(caseId), called from the click handler of the tab `target`
showCase(caseId, target) ==
    /\ panelActive' = IF caseId \in Cases THEN {caseId} ELSE {}
    /\ tabActive' = IF caseId \in Cases THEN {target} ELSE {}
    /\ uncaught' = IF caseId \in Cases THEN uncaught ELSE TRUE
    /\ UNCHANGED <<loading, inflight, dom, display, currentChart, liveCharts,
                   alert, started, lastRender, now>>

\* a handler from its call to its await of fetch(); `present` says whether the
\* input element that runCase5 and runCase6 read exists
Start(h, present) ==
    /\ started < MaxRequests
    /\ started' = started + 1
    /\ loading' = showLoading(TRUE)
    /\ IF GathersInput(h) /\ ~present
       THEN uncaught' = TRUE /\ UNCHANGED inflight
       ELSE inflight' = [inflight EXCEPT ![h] = @ + 1] /\ UNCHANGED uncaught
    /\ UNCHANGED <<panelActive, tabActive, dom, display, currentChart,
                   liveCharts, alert, lastRender, now>>

\* a handler from the arrival of its response to its end
Resume(h, resp) ==
    /\ inflight[h] > 0
    /\ inflight' = [inflight EXCEPT ![h] = @ - 1]
    /\ LET out == Continue(h, resp, UI, alert, now)
       IN  /\ dom' = out.ui.dom
           /\ display' = out.ui.display
           /\ currentChart' = out.ui.chart
           /\ liveCharts' = out.ui.live
           /\ alert' = out.alert
    /\ lastRender' =
           IF Renders(h, resp)
           THEN [fn |-> RendererOf(h), data |-> resp.data,
                 twice |-> /\ lastRender.fn = RendererOf(h)
                           /\ lastRender.data = resp.data]
           ELSE lastRender
    /\ loading' = showLoading(FALSE)
    /\ UNCHANGED <<panelActive, tabActive, uncaught, started, now>>

\* time passes
Tick ==
    /\ now < MaxTime
    /\ now' = now + 1
    /\ UNCHANGED <<panelActive, tabActive, loading, inflight, dom, display,
                   currentChart, liveCharts, alert, uncaught, started, lastRender>>

(***************************************************************************)
(* The responses of the backend: every handler is given a network          *)
(* failure, the error object, well-formed payloads and payloads with       *)
(* defective fields.                                                       *)
(***************************************************************************)
SeqsUpTo(S, n) == UNION {[1..k -> S] : k \in 0..n}

Responses(P) == {[net |-> "fail"]} \cup {[net |-> "ok", data |-> d] : d \in P}

ErrorText == Str(<<"singular matrix">>)

\* LinearSolve
stepMatrix ==
    Obj([step |-> Num(10), description |-> Str(<<"swap rows">>),
         matrix |-> Arr(<<Arr(<<Num(10), Num(-5)>>)>>)])
stepLU ==
    Obj([step |-> Num(20), description |-> Str(<<"factorise">>),
         L |-> Arr(<<Arr(<<Num(10)>>)>>), U |-> Arr(<<Arr(<<Num(25)>>)>>)])

Payload1(error, steps, solution) ==
    [error |-> error, steps |-> steps, solution |-> solution,
     method |-> IF solution = Undefined THEN Undefined ELSE Str(<<"gauss">>),
     num_steps |-> IF steps.t = "array" THEN Num(10 * Len(steps.a)) ELSE Undefined]

Payloads1 ==
    {Payload1(ErrorText, Undefined, Undefined),
     Payload1(Undefined, Undefined, Undefined),
     Payload1(Undefined, Arr(<<stepMatrix>>), Arr(<<Num(5), Num(-20)>>)),
     Payload1(Undefined, Arr(<<stepLU>>), Undefined)}

\* SORIterate: a run with k iteration samples, or without the iterations array
Sample(j) == Obj([iteration |-> Num(10 * j), exact_error |-> Num(10 - j)])
Run(k) ==
    Obj([omega |-> Num(10 + k), convergence_iter |-> Num(10 * k),
         final_solution |-> Arr(<<Num(10), Num(20)>>),
         iterations |-> Arr([j \in 1..k |-> Sample(j)])])
RunWithoutIterations ==
    Obj([omega |-> Num(15), convergence_iter |-> Num(30),
         final_solution |-> Arr(<<Num(10), Num(20)>>)])

Payload2(error, results) == [error |-> error, results |-> results]

Payloads2 ==
    {Payload2(ErrorText, Undefined),
     Payload2(Undefined, Undefined),
     Payload2(Undefined, Arr(<<Run(2), Run(1)>>)),
     Payload2(Undefined, Arr(<<RunWithoutIterations>>))}

\* every results array of at most MaxLen runs of at most MaxLen samples each
GeneratedPayloads2 ==
    {Payload2(Undefined, Arr(rs)) :
        rs \in SeqsUpTo({Run(k) : k \in 0..MaxLen}, MaxLen)}

\* results arrays of 0 .. Len(colors) + MaxLen runs: more runs than the palette
\* has entries
LongPayloads2 ==
    {Payload2(Undefined, Arr([i \in 1..k |-> Run(i % (MaxLen + 1))])) :
        k \in 0..(Len(colors) + MaxLen)}

\* the relaxation-factor search
SearchPoint(j) == Obj([omega |-> Num(10 + j), iterations |-> Num(100 - 10 * j)])

PayloadOptimal(error, optimal_omega, search_results) ==
    [error |-> error, optimal_omega |-> optimal_omega,
     iterations |-> IF optimal_omega = Undefined THEN Undefined ELSE Num(70),
     search_results |-> search_results]

PayloadsOptimal ==
    {PayloadOptimal(ErrorText, Undefined, Undefined),
     PayloadOptimal(Undefined, Undefined, Undefined),
     PayloadOptimal(Undefined, Num(12), Undefined),
     PayloadOptimal(Undefined, Num(12), Arr(<<SearchPoint(1), SearchPoint(2)>>))}

\* Regression
Coefficient(i, c) ==
    Obj([feature |-> Str(<<"feature" \o ToString(i)>>), coefficient |-> Num(c)])
Coefficients(cs) == Arr([i \in 1..Len(cs) |-> Coefficient(i, cs[i])])

Payload3(error, r_squared, coefficients_sorted) ==
    [error |-> error, r_squared |-> r_squared,
     rmse |-> IF r_squared = Undefined THEN Undefined ELSE Num(3),
     num_samples |-> IF r_squared = Undefined THEN Undefined ELSE Num(1000),
     num_features |-> IF coefficients_sorted.t = "array"
                      THEN Num(10 * Len(coefficients_sorted.a)) ELSE Undefined,
     coefficients_sorted |-> coefficients_sorted]

Payloads3 ==
    {Payload3(ErrorText, Undefined, Undefined),
     Payload3(Undefined, Undefined, Undefined),
     Payload3(Undefined, Num(9), Undefined),
     Payload3(Undefined, Num(9), Coefficients(<<-20, 10, 5>>)),
     Payload3(Undefined, Num(9), Coefficients(<<5, -20, 10>>))}

\* every list of at most MaxLen coefficients with values 0, 0.5 and -2.0
GeneratedPayloads3 ==
    {Payload3(Undefined, Num(9), Coefficients(cs)) :
        cs \in SeqsUpTo({0, 5, -20}, MaxLen)}

\* BridgeStatics
Balanced ==
    Obj([is_balanced |-> Bool(TRUE), force_balance_error |-> Num(0),
         moment_balance_error |-> Num(1), total_reaction |-> Num(250),
         total_external |-> Num(250)])
NullResidual == Obj([is_balanced |-> Bool(FALSE), force_balance_error |-> Null])

Payload4(error, figure_path, support_reactions, support_positions, verification) ==
    [error |-> error, figure_path |-> figure_path,
     support_reactions |-> support_reactions,
     support_positions |-> support_positions, verification |-> verification]

RelativePath == Str(<<"static/figure.png">>)
RootedPath == Str(<<"/", "static/figure.png">>)

Payloads4 ==
    {Payload4(ErrorText, Undefined, Undefined, Undefined, Undefined),
     Payload4(Undefined, RelativePath, Arr(<<Num(125), Num(125)>>),
              Arr(<<Num(0), Num(100)>>), Balanced),
     Payload4(Undefined, Undefined, Arr(<<>>), Arr(<<>>), Undefined),
     Payload4(Undefined, RootedPath, Arr(<<Num(250)>>), Undefined, NullResidual)}

\* every reactions value (absent, no array, an array of at most MaxLen numbers)
\* with every positions value (absent, no array, an array of at most MaxLen
\* numbers, the first of them 0)
GeneratedPayloads4 ==
    {Payload4(Undefined, RelativePath, rs, ps, Balanced) :
        rs \in {Undefined, Str(<<"none">>)}
                  \cup {Arr([i \in 1..k |-> Num(125 * i)]) : k \in 0..MaxLen},
        ps \in {Undefined, Str(<<"none">>)}
                  \cup {Arr([i \in 1..k |-> Num(100 * (i - 1))]) : k \in 0..MaxLen}}

\* RayTrace
Payload5(error, figure_path) ==
    [error |-> error, figure_path |-> figure_path,
     num_rays |-> IF figure_path = Undefined THEN Undefined ELSE Num(500),
     total_intersections |-> IF figure_path = Undefined THEN Undefined ELSE Num(1200)]

Payloads5 ==
    {Payload5(ErrorText, Undefined), Payload5(Undefined, RelativePath),
     Payload5(Undefined, RootedPath)}

\* ConjugateGradient
Payload6(error, figure_path, final_residual) ==
    [error |-> error, figure_path |-> figure_path,
     matrix_size |-> IF figure_path = Undefined THEN Undefined ELSE Num(1000),
     iterations |-> IF figure_path = Undefined THEN Undefined ELSE Num(120),
     final_residual |-> final_residual, relative_error |-> final_residual]

Payloads6 ==
    {Payload6(ErrorText, Undefined, Undefined),
     Payload6(Undefined, RelativePath, Num(1)),
     Payload6(Undefined, RelativePath, Null)}

Payloads(h) ==
    CASE h = "runCase1" -> Payloads1
      [] h = "runCase2" -> Payloads2
      [] h = "findOptimalOmega" -> PayloadsOptimal
      [] h = "runCase3" -> Payloads3
      [] h \in {"runCase4Simple", "runCase4"} -> Payloads4
      [] h = "runCase5" -> Payloads5
      [] h = "runCase6" -> Payloads6

(***************************************************************************)
(* The specifications.  Spec: the eight handlers, called and resumed in    *)
(* any order.  SpecRender: the handlers called one after the other, while  *)
(* time passes.  SpecTabs: showCase, from every combination of active      *)
(* panels and tabs.  SpecCase2 and SpecCase4: the handlers of SORIterate   *)
(* and of BridgeStatics with the generated payloads.  SpecPalette: runCase2 *)
(* with more runs than the palette has colours.  SpecCase3: runCase3 with  *)
(* the generated coefficient lists.  SpecBurst: the handlers all called    *)
(* before the first response arrives.  SpecFrame: showCase interleaved     *)
(* with the handlers that draw charts.                                     *)
(***************************************************************************)
Next ==
    \/ \E h \in Handlers, present \in BOOLEAN : Start(h, present)
    \/ \E h \in Handlers : \E resp \in Responses(Payloads(h)) : Resume(h, resp)

Spec == Init /\ [][Next]_vars

\* a handler called while no request is outstanding
StartAlone(h) == NumInflight = 0 /\ Start(h, TRUE)

NextRender ==
    \/ \E h \in Handlers : StartAlone(h)
    \/ \E h \in Handlers : \E resp \in Responses(Payloads(h)) : Resume(h, resp)
    \/ Tick

SpecRender == Init /\ [][NextRender]_vars

InitTabs ==
    /\ panelActive \in SUBSET Cases
    /\ tabActive \in SUBSET Tabs
    /\ loading = "none"
    /\ inflight = [h \in Handlers |-> 0]
    /\ dom = [r \in Regions |-> Empty]
    /\ display = [r \in ResultDivs |-> "none"]
    /\ currentChart = Null
    /\ liveCharts = [c \in Canvases |-> 0]
    /\ alert = <<>>
    /\ uncaught = FALSE
    /\ started = 0
    /\ lastRender = [fn |-> "none", twice |-> FALSE]
    /\ now = 0

NextTabs == \E caseId \in Cases \cup {NoSuchCase}, target \in Tabs : showCase(caseId, target)

SpecTabs == InitTabs /\ [][NextTabs]_vars

NextCase2 ==
    \/ Start("runCase2", TRUE)
    \/ \E resp \in Responses(GeneratedPayloads2) : Resume("runCase2", resp)

SpecCase2 == Init /\ [][NextCase2]_vars

NextCase4 ==
    \/ \E h \in {"runCase4Simple", "runCase4"} : Start(h, TRUE)
    \/ \E h \in {"runCase4Simple", "runCase4"} :
           \E resp \in Responses(GeneratedPayloads4) : Resume(h, resp)

SpecCase4 == Init /\ [][NextCase4]_vars

NextPalette ==
    \/ Start("runCase2", TRUE)
    \/ \E resp \in Responses(LongPayloads2) : Resume("runCase2", resp)

SpecPalette == Init /\ [][NextPalette]_vars

\* a handler called before the response of any earlier call has arrived
StartBeforeResponse(h) == NumInflight = started /\ Start(h, TRUE)

NextBurst ==
    \/ \E h \in Handlers : StartBeforeResponse(h)
    \/ \E h \in Handlers : \E resp \in Responses(Payloads(h)) : Resume(h, resp)

SpecBurst == Init /\ [][NextBurst]_vars

NextCase3 ==
    \/ Start("runCase3", TRUE)
    \/ \E resp \in Responses(GeneratedPayloads3) : Resume("runCase3", resp)

SpecCase3 == Init /\ [][NextCase3]_vars

\* the handlers of the two cases that draw a chart, with the tabs of these cases
\* and an unknown id clicked at any time
NextFrame ==
    \/ \E h \in {"runCase2", "runCase3"} : Start(h, TRUE)
    \/ \E h \in {"runCase2", "runCase3"} :
           \E resp \in Responses(Payloads(h)) : Resume(h, resp)
    \/ \E caseId \in {"case2", "case3", NoSuchCase}, target \in {"tab2", "tab3"} :
           showCase(caseId, target)

SpecFrame == Init /\ [][NextFrame]_vars

(***************************************************************************)
(* Properties.                                                             *)
(***************************************************************************)
OK(d) == [net |-> "ok", data |-> d]

\* the step is the end of a call of handler h: its continuation has run, or it
\* raised before it issued its request
HandlerEnds(h) ==
    \/ \E resp \in Responses(Payloads(h)) : Resume(h, resp)
    \/ \E present \in BOOLEAN : Start(h, present) /\ inflight' = inflight

\* C1: every call of every handler that shows the loading indicator hides it
\* again before it ends, on every path: render, backend error, network failure
\* and an exception raised while gathering inputs or rendering.
C1_LoadingHiddenOnEveryPath ==
    [][\A h \in Handlers : HandlerEnds(h) => loading' = "none"]_vars

Contains(text, token) == \E i \in 1..Len(text) : text[i] = token

\* C2: for every handler, a response that carries an error field makes the
\* handler show a notification containing the error string and change no result
\* region, no result panel visibility and not the chart handle.
C2_ErrorResponseOnlyNotifies ==
    [][\A h \in Handlers : \A d \in Payloads(h) :
           (Truthy(d.error) /\ Resume(h, OK(d)))
               => /\ \A i \in 1..Len(d.error.s) : Contains(alert', d.error.s[i])
                  /\ UNCHANGED <<dom, display, currentChart>>]_vars

\* C3: at every point at most one chart that was created and not destroyed
\* exists, over both canvases.
C3_AtMostOneLiveChart == NumLive <= 1

\* C3: a bar chart on case3-chart has replaced the convergence chart that was
\* drawn on case2-chart with the two-run summary.
C3_Witness ==
    /\ currentChart.t = "chart"
    /\ currentChart.type = "bar"
    /\ ~currentChart.destroyed
    /\ dom["case2-summary"].k = "summary"
    /\ Len(dom["case2-summary"].cards) = 2
    /\ NumLive = 1

\* C4: after a call of showCase with the id of a case panel has returned,
\* exactly one case panel and exactly one tab are active, whatever was active
\* before.
C4_ExactlyOneActive ==
    [][\A caseId \in Cases, target \in Tabs :
           showCase(caseId, target)
               => Cardinality(panelActive') = 1 /\ Cardinality(tabActive') = 1]_vars

\* C4: showCase has run with an unknown id (nothing active any more) and then
\* with the id of a panel.
C4_Witness ==
    uncaught /\ Cardinality(panelActive) = 1 /\ Cardinality(tabActive) = 1

\* C5 as claimed, for the runs in which no exception was left uncaught: the
\* loading indicator is shown exactly while some request is outstanding.
C5_ShownExactlyWhileOutstanding ==
    ~uncaught => (loading = "flex" <=> NumInflight > 0)

\* C5, amended: the loading indicator is shown by every step that issues a
\* request and hidden by every step that ends one, so the first response to
\* arrive hides it while other requests are still outstanding.
C5_ShownOnIssueHiddenOnArrival ==
    [][/\ NumInflight' > NumInflight => loading' = "flex"
       /\ NumInflight' < NumInflight => loading' = "none"]_vars

\* C5: one of two overlapping requests has ended and the indicator is hidden
\* while the other is outstanding.
C5_Witness == loading = "none" /\ NumInflight > 0

\* C6: no renderer raises on an error-free response, whichever fields of it are
\* absent, null or no array (the notification of a caught exception is never
\* shown for a response that was handed to a renderer).
C6_RenderersNeverRaise ==
    [][\A h \in Handlers \ {"findOptimalOmega"} : \A d \in Payloads(h) :
           (~Truthy(d.error) /\ Resume(h, OK(d)))
               => alert' # catchAlert(TypeError)]_vars

\* the coefficient values of a Regression payload, in payload order
CoefficientValues(d) ==
    [i \in 1..Len(d.coefficients_sorted.a) |->
        Get(d.coefficients_sorted.a[i], "coefficient").n]

\* the values cs reordered by p are in descending order of absolute value
DescendingBy(cs, p) ==
    \A i, j \in 1..Len(cs) : i < j => AbsVal(cs[p[i]]) >= AbsVal(cs[p[j]])

\* C7: whatever the order of the coefficients in the payload, the rendered list
\* shows them in descending order of absolute value.
C7_CoefficientsRenderedDescending ==
    [][\A d \in Payloads3 :
           (/\ Resume("runCase3", OK(d))
            /\ ~Truthy(d.error)
            /\ alert' # catchAlert(TypeError))
               => LET cs == CoefficientValues(d)
                      items == dom'["case3-coefficients"].items
                  IN  /\ Len(items) = Len(cs)
                      /\ \E p \in Permutations(1..Len(cs)) :
                             /\ DescendingBy(cs, p)
                             /\ \A i \in 1..Len(cs) :
                                    items[i].value = toFixed(cs[p[i]], 6)]_vars

\* C8: the chart built for a response with N runs has N series, in run order,
\* and series i has as many points as run i has iteration samples (stated of
\* the payload displayCase2Result was called with last and the chart it left).
C8_OneSeriesPerRun ==
    (lastRender.fn = "displayCase2Result" /\ IsArray(lastRender.data.results))
        => LET runs == lastRender.data.results.a
               chart == currentChart
           IN  /\ chart.t = "chart"
               /\ ~chart.destroyed
               /\ chart.canvas = "case2-chart"
               /\ Len(chart.datasets) = Len(runs)
               /\ \A i \in 1..Len(runs) :
                      /\ chart.datasets[i].label
                             = <<"w = ">> \o ToStr(Get(runs[i], "omega"))
                      /\ Len(chart.datasets[i].data)
                             = Len(Get(runs[i], "iterations").a)

\* C8: a chart of two series that differ in their number of points is drawn.
C8_Witness ==
    /\ currentChart.t = "chart"
    /\ ~currentChart.destroyed
    /\ Len(currentChart.datasets) = 2
    /\ Len(currentChart.datasets[1].data) = 2
    /\ Len(currentChart.datasets[2].data) = 1

\* C9: the reactions table has exactly one "no data" row when support_reactions
\* is empty, absent or no array, and the renderer does not raise then (it goes
\* on to write the verification region); otherwise the table has one row per
\* reaction, with position 0.00 where the position is missing (stated of the
\* payload displayCase4Result was called with last and the table it left).
C9_ReactionRows ==
    lastRender.fn = "displayCase4Result"
        => LET rs == lastRender.data.support_reactions
               ps == lastRender.data.support_positions
               rows == dom["case4-reactions"].rows
           IN  IF rs.t # "array" \/ Len(rs.a) = 0
               THEN /\ rows = << <<"no data">> >>
                    /\ alert # catchAlert(TypeError)
                    /\ dom["case4-verification"].k = "verification"
               ELSE /\ Len(rows) = Len(rs.a)
                    /\ \A i \in 1..Len(rs.a) :
                           /\ rows[i][2] = IF ps.t = "array" /\ i <= Len(ps.a)
                                           THEN toFixed(ps.a[i].n, 2)
                                           ELSE "0.00"
                           /\ rows[i][3] = toFixed(rs.a[i].n, 4)

\* C9: the table of a response without reactions holds the one "no data" row
\* and no exception was notified.
C9_Witness ==
    /\ lastRender.fn = "displayCase4Result"
    /\ lastRender.data.support_reactions.t # "array"
    /\ dom["case4-reactions"].k = "table"
    /\ dom["case4-reactions"].rows = << <<"no data">> >>
    /\ alert = <<>>

\* the step hands payload d to the renderer that was called last, with the same
\* payload
RendersAgain(h, d) ==
    /\ lastRender.fn = RendererOf(h)
    /\ lastRender.data = d
    /\ Renders(h, OK(d))
    /\ Resume(h, OK(d))

\* C10 as claimed: rendering the same payload twice in a row, at two times,
\* gives the same display output both times.
C10_SecondRenderIdentical ==
    [][\A h \in Handlers : \A d \in Payloads(h) :
           RendersAgain(h, d) => UNCHANGED <<dom, display, currentChart>>]_vars

\* the image region differs at most in the time token that ends the source
SameUpToTimeToken(before, after, t) ==
    \/ after = before
    \/ /\ before.k = "image"
       /\ after.k = "image"
       /\ after.caption = before.caption
       /\ Len(after.src) = Len(before.src)
       /\ SubSeq(after.src, 1, Len(after.src) - 1)
              = SubSeq(before.src, 1, Len(before.src) - 1)
       /\ after.src[Len(after.src)] = ToString(t)

\* C10, amended: rendering the same payload twice in a row gives the same
\* display output both times, except for the BridgeStatics image source, which
\* ends in the time of the render it comes from.
C10_SecondRenderIdenticalButTimeToken ==
    [][\A h \in Handlers : \A d \in Payloads(h) :
           RendersAgain(h, d)
               => /\ \A r \in Regions \ {"case4-image"} : dom'[r] = dom[r]
                  /\ UNCHANGED <<display, currentChart>>
                  /\ SameUpToTimeToken(dom["case4-image"], dom'["case4-image"], now)
                  /\ (dom'["case4-image"] # dom["case4-image"]
                         => RendererOf(h) = "displayCase4Result"
                            /\ Truthy(d.figure_path))]_vars

\* C10: a BridgeStatics payload with a figure was rendered twice in a row, the
\* second time after the clock had advanced.
C10_Witness ==
    /\ lastRender.twice
    /\ lastRender.fn = "displayCase4Result"
    /\ dom["case4-image"].k = "image"
    /\ now > 0
    /\ dom["case4-image"].src[Len(dom["case4-image"].src)] = ToString(now)


\* C11: in the convergence chart every series i (counted from 0), also for
\* i >= 4, has the defined colour palette[i mod 4] of the 4-entry palette.
C11_PaletteCycled ==
    (lastRender.fn = "displayCase2Result" /\ currentChart.t = "chart")
        => \A i \in 1..Len(currentChart.datasets) :
               /\ currentChart.datasets[i].borderColor
                      = Str(<<colors[((i - 1) % Len(colors)) + 1]>>)
               /\ currentChart.datasets[i].backgroundColor
                      = <<colors[((i - 1) % Len(colors)) + 1], "33">>


\* the image region each image-bearing handler's renderer writes
ImageRegionOf(h) ==
    CASE h \in {"runCase4Simple", "runCase4"} -> "case4-image"
      [] h = "runCase5" -> "case5-image"
      [] h = "runCase6" -> "case6-image"

\* the path without the separator it may begin with
WithoutLeadingSlash(path) == IF Len(path) > 0 /\ path[1] = "/" THEN Tail(path) ELSE path

\* C12: for each of the three image-bearing renderers and a figure_path with or
\* without a leading '/', the image source is one path separator, the path, and
\* a query token made of the current time.
C12_ImageSourceNormalised ==
    [][\A h \in {"runCase4Simple", "runCase4", "runCase5", "runCase6"} :
           \A d \in Payloads(h) :
               (d.figure_path.t = "string" /\ Resume(h, OK(d)))
                   => /\ dom'[ImageRegionOf(h)].k = "image"
                      /\ dom'[ImageRegionOf(h)].src
                             = <<"/">> \o WithoutLeadingSlash(d.figure_path.s)
                                   \o <<"?t=", ToString(now)>>]_vars


\* C13: a call of showCase with an id that matches no panel changes nothing but
\* the tabs, which are all deactivated: the panels that were active before the
\* call are active after it.
C13_UnknownCaseKeepsPanels ==
    [][\A target \in Tabs :
           showCase(NoSuchCase, target)
               => panelActive' = panelActive /\ tabActive' = {}]_vars


\* C14: runCase1 is called twice before either response arrives and both
\* responses are error-free and rendered; when the continuation of the response
\* that arrives last has run without raising, the steps region and the solution
\* region both show that response: its steps, and its solution or none.
C14_LastArrivedWinsPanel ==
    [][\A d \in Payloads1 :
           (/\ started = 2
            /\ NumInflight = 1
            /\ inflight["runCase1"] = 1
            /\ lastRender.fn = "displayCase1Result"
            /\ ~Truthy(d.error)
            /\ Resume("runCase1", OK(d))
            /\ alert' # catchAlert(TypeError))
               => /\ dom'["case1-steps"]
                         = [k |-> "steps", items |-> MapOf(d.steps.a, stepHTML)]
                  /\ Truthy(d.solution) => dom'["case1-solution"] = solutionHTML(d)
                  /\ ~Truthy(d.solution) => dom'["case1-solution"].k # "solution"]_vars


\* C15: whenever currentChart is not null it refers to a chart that has not
\* been destroyed, also after a chart builder that raised: no builder releases
\* the previous chart without putting a new one in the handle.
C15_HandleNeverDangling ==
    currentChart.t = "chart" => ~currentChart.destroyed


\* the largest absolute value of the values cs, 0 for no values
LargestAbs(cs) ==
    IF Len(cs) = 0 THEN 0
    ELSE CHOOSE m \in {AbsVal(cs[j]) : j \in 1..Len(cs)} :
             \A j \in 1..Len(cs) : AbsVal(cs[j]) <= m

\* C16: every rendered bar width is a defined number w between 0 and 100 with
\* w = 100 * |coefficient| / max(|coefficient|) over the list, also for a list
\* of no or one coefficient and for a list of zeros (stated of the payload
\* displayCase3Result was called with last and the list it left).
C16_BarWidthsDefined ==
    lastRender.fn = "displayCase3Result"
        => LET cs == CoefficientValues(lastRender.data)
               items == dom["case3-coefficients"].items
           IN  /\ Len(items) = Len(cs)
               /\ \A i \in 1..Len(cs) :
                      \E w \in 0..100 :
                          /\ w * LargestAbs(cs) = 100 * AbsVal(cs[i])
                          /\ items[i].bar = ToString(w) \o "%"


\* C17: every call of showCase, with a known or an unknown id, also while
\* requests are in flight, leaves the chart handle and its chart, the loading
\* indicator, and the content and the display state of every result region as
\* they were.
C17_ShowCaseFrame ==
    [][\A caseId \in Cases \cup {NoSuchCase}, target \in Tabs :
           showCase(caseId, target)
               => UNCHANGED <<currentChart, liveCharts, loading, dom, display>>]_vars

\* C17: the panel of case 3 has been activated and a request is in flight, with
\* the loading indicator shown, a chart in the handle and a rendered summary.
C17_Witness ==
    /\ panelActive = {"case3"}
    /\ tabActive = {"tab3"}
    /\ NumInflight > 0
    /\ loading = "flex"
    /\ currentChart.t = "chart"
    /\ dom["case2-summary"].k = "summary"
    /\ display["case2-result"] = "block"


\* C18: when the renderer (or chart builder) a handler calls raises, the
\* exception does not leave the handler: the handler shows the request-failure
\* notification that it shows for a network failure, hides the loading
\* indicator, and what the renderer had written before it raised, the visible
\* result panel included, stays.
C18_RendererExceptionCaught ==
    [][\A h \in Handlers : \A d \in Payloads(h) :
           (/\ inflight'[h] < inflight[h]
            /\ Renders(h, OK(d))
            /\ lastRender'.fn = RendererOf(h)
            /\ lastRender'.data = d
            /\ Resume(h, OK(d))
            /\ RenderOutcome(h, d, UI, now).raised)
               => LET out == RenderOutcome(h, d, UI, now)
                  IN  /\ uncaught' = uncaught
                      /\ alert' = catchAlert(TypeError)
                      /\ alert'[1] = catchAlert(NetworkError)[1]
                      /\ loading' = "none"
                      /\ dom' = out.dom
                      /\ display' = out.display
                      /\ h # "findOptimalOmega"
                             => display'[ResultDivOf(h)] = "block"]_vars

\* C18: displayCase1Result has raised on a payload without steps, after it
\* made the panel visible and before it wrote a region: the failure is
\* notified, the indicator is hidden and the panel is visible.
C18_Witness ==
    /\ alert = catchAlert(TypeError)
    /\ ~uncaught
    /\ NumInflight = 0
    /\ loading = "none"
    /\ display["case1-result"] = "block"
    /\ dom["case1-steps"] = Empty
    /\ lastRender.fn = "displayCase1Result"
    /\ ~IsArray(lastRender.data.steps)


\* C19: when displayCase2Result is given a results value that is no array, it
\* makes the panel visible, writes the format-error message into the summary
\* region and returns without calling the chart builder: currentChart and the
\* chart it refers to are as before, and nothing is notified.
C19_FormatErrorKeepsChart ==
    [][\A d \in Payloads2 :
           (/\ ~Truthy(d.error)
            /\ ~IsArray(d.results)
            /\ Resume("runCase2", OK(d)))
               => /\ dom'["case2-summary"] = [k |-> "format-error"]
                  /\ display'["case2-result"] = "block"
                  /\ \A r \in Regions \ {"case2-summary"} : dom'[r] = dom[r]
                  /\ UNCHANGED <<currentChart, liveCharts, alert>>]_vars

\* C19: the summary region shows the format error while the convergence chart
\* of an earlier response with two runs is still in the handle, live.
C19_Witness ==
    /\ dom["case2-summary"] = [k |-> "format-error"]
    /\ lastRender.fn = "displayCase2Result"
    /\ ~IsArray(lastRender.data.results)
    /\ currentChart.t = "chart"
    /\ currentChart.canvas = "case2-chart"
    /\ Len(currentChart.datasets) = 2
    /\ ~currentChart.destroyed
    /\ liveCharts["case2-chart"] = 1


\* C20: rendering a LinearSolve payload without a solution writes the steps
\* region and leaves the solution region as it was: after a render with a
\* solution, the region still shows that solution, method and step count.
C20_SolutionRegionUntouched ==
    [][\A d \in Payloads1 :
           (/\ ~Truthy(d.error)
            /\ IsArray(d.steps)
            /\ ~Truthy(d.solution)
            /\ Resume("runCase1", OK(d)))
               => /\ dom'["case1-solution"] = dom["case1-solution"]
                  /\ dom'["case1-steps"]
                         = [k |-> "steps", items |-> MapOf(d.steps.a, stepHTML)]]_vars

\* C20: the payload rendered last has no solution and its steps are shown,
\* next to the solution, method and step count of an earlier response.
C20_Witness ==
    /\ lastRender.fn = "displayCase1Result"
    /\ IsArray(lastRender.data.steps)
    /\ ~Truthy(lastRender.data.solution)
    /\ dom["case1-steps"]
           = [k |-> "steps", items |-> MapOf(lastRender.data.steps.a, stepHTML)]
    /\ dom["case1-solution"].k = "solution"
    /\ dom["case1-solution"].method = <<"gauss">>
    /\ dom["case1-solution"].items = << <<"0.50000000">>, <<"-2.00000000">> >>

====
